---- MODULE Spec2Model ----
(***************************************************************************)
(* Model of scripts/python/extract_test_elements.py: the Extractor         *)
(* (extract_test_elements) and the command-line shell around it.           *)
(*                                                                         *)
(* Strings are sequences of one-character strings, so that startswith and  *)
(* strip are computed character by character.  A parsed document (the      *)
(* BeautifulSoup tree) is a sequence of nodes listed by the position of    *)
(* their start in the HTML text; each node names its parent (0 is the      *)
(* BeautifulSoup object itself).  Traversals are computed from the         *)
(* parent/children structure, as the library computes them.                *)
(***************************************************************************)
EXTENDS Integers, Sequences, FiniteSets, TLC

(***************************************************************************)
(* Bounds of the explored inputs.                                          *)
(***************************************************************************)
MaxNodes == 3
MaxTexts == 2
MaxLabels == 2
MaxLibNodes == 2

(***************************************************************************)
(* Python values.                                                          *)
(***************************************************************************)
\* Python's None: what element.get(name) returns for a missing attribute.
None == <<"None">>

\* Truthiness of an Optional[str]: None and "" are falsy.
Truthy(v) == v # None /\ v # <<>>

\* str.startswith(prefix)
StartsWith(s, prefix) ==
    /\ Len(s) >= Len(prefix)
    /\ SubSeq(s, 1, Len(prefix)) = prefix

\* the characters str.strip() removes
Whitespace == {" ", "\n", "\t"}

RECURSIVE LStrip(_)
LStrip(s) ==
    IF s = <<>> THEN s
    ELSE IF Head(s) \in Whitespace THEN LStrip(Tail(s)) ELSE s

RECURSIVE RStrip(_)
RStrip(s) ==
    IF s = <<>> THEN s
    ELSE IF s[Len(s)] \in Whitespace THEN RStrip(SubSeq(s, 1, Len(s) - 1)) ELSE s

\* str.strip()
Strip(s) == RStrip(LStrip(s))

(***************************************************************************)
(* String literals of the program and of the explored documents.           *)
(***************************************************************************)
E2E_PREFIX == <<"e", "2", "e", "-">>
LABEL == <<"l", "a", "b", "e", "l">>

DIV == <<"d", "i", "v">>
SPAN == <<"s", "p", "a", "n">>
INPUT == <<"i", "n", "p", "u", "t">>
BUTTON == <<"b", "u", "t", "t", "o", "n">>
E2E_A == <<"e", "2", "e", "-", "a">>
E2E_B == <<"e", "2", "e", "-", "b">>
UNIT_FOO == <<"u", "n", "i", "t", "-", "f", "o", "o">>
ID_X == <<"x">>
ID_Y == <<"y">>
SUBMIT == <<"s", "u", "b">>
CLOSE == <<"c", "l", "o", "s", "e">>
HINT == <<"y", "o", "u", "@", "x">>

(***************************************************************************)
(* The parsed tree.                                                        *)
(***************************************************************************)
TagNode(name, attrs, parent) ==
    [kind |-> "tag", name |-> name, attrs |-> attrs, string |-> <<>>, parent |-> parent]

TextNode(string, parent) ==
    [kind |-> "text", name |-> <<>>, attrs |-> <<>>, string |-> string, parent |-> parent]

\* Tag.get(name): the value of the attribute, None when the tag has none.
\* attrs is the tag's ordered mapping, a sequence of <<name, value>>.
Get(node, name) ==
    IF \E i \in 1..Len(node.attrs) : node.attrs[i][1] = name
    THEN node.attrs[CHOOSE i \in 1..Len(node.attrs) : node.attrs[i][1] = name][2]
    ELSE None

\* Tag.contents: the children of p, in document order.
RECURSIVE ChildrenFrom(_, _, _)
ChildrenFrom(doc, p, i) ==
    IF i > Len(doc) THEN <<>>
    ELSE IF doc[i].parent = p THEN <<i>> \o ChildrenFrom(doc, p, i + 1)
    ELSE ChildrenFrom(doc, p, i + 1)

Children(doc, p) == ChildrenFrom(doc, p, 1)

\* Tag.descendants: each child followed by its own descendants (pre-order).
RECURSIVE Descendants(_, _)
RECURSIVE DescendantsOfEach(_, _)
DescendantsOfEach(doc, cs) ==
    IF cs = <<>> THEN <<>>
    ELSE <<Head(cs)>> \o Descendants(doc, Head(cs)) \o DescendantsOfEach(doc, Tail(cs))

Descendants(doc, p) == DescendantsOfEach(doc, Children(doc, p))

\* Tag.get_text(strip=True): every text string below the tag, each stripped,
\* the empty ones dropped, joined with the empty separator.
RECURSIVE JoinStripped(_, _)
JoinStripped(doc, ns) ==
    IF ns = <<>> THEN <<>>
    ELSE IF doc[Head(ns)].kind = "text"
         THEN Strip(doc[Head(ns)].string) \o JoinStripped(doc, Tail(ns))
         ELSE JoinStripped(doc, Tail(ns))

get_text(doc, el) == JoinStripped(doc, Descendants(doc, el))

\* soup.find_all(attrs={name: True}): the tags below the root that carry the
\* attribute, whatever its value, in the order of the traversal.
RECURSIVE FilterHasAttr(_, _, _)
FilterHasAttr(doc, ns, name) ==
    IF ns = <<>> THEN <<>>
    ELSE IF doc[Head(ns)].kind = "tag" /\ Get(doc[Head(ns)], name) # None
         THEN <<Head(ns)>> \o FilterHasAttr(doc, Tail(ns), name)
         ELSE FilterHasAttr(doc, Tail(ns), name)

find_all(doc, name) == FilterHasAttr(doc, Descendants(doc, 0), name)

\* soup.find(tag, attrs={name: value}): the first tag of the traversal with
\* that tag name whose attribute equals value; 0 stands for None.
RECURSIVE FirstMatch(_, _, _, _, _)
FirstMatch(doc, ns, tag, name, value) ==
    IF ns = <<>> THEN 0
    ELSE IF /\ doc[Head(ns)].kind = "tag"
            /\ doc[Head(ns)].name = tag
            /\ Get(doc[Head(ns)], name) = value
         THEN Head(ns)
         ELSE FirstMatch(doc, Tail(ns), tag, name, value)

\* variant: the tag name is not looked at
find_any_tag(doc, tag, name, value) ==
    LET ms == {i \in 1..Len(doc) : doc[i].kind = "tag" /\ Get(doc[i], name) = value}
    IN  IF ms = {} THEN 0 ELSE CHOOSE i \in ms : \A j \in ms : i <= j

find(doc, tag, name, value) == FirstMatch(doc, Descendants(doc, 0), tag, name, value)

(***************************************************************************)
(* The explored documents.                                                 *)
(***************************************************************************)
RECURSIVE AncOrSelf(_, _)
AncOrSelf(par, i) == IF i = 0 THEN {0} ELSE {i} \cup AncOrSelf(par, par[i])

\* Parent vectors of trees whose nodes are numbered by their start in the
\* text: a node opens inside the node before it or inside one of its ancestors.
ParentVecs(n) ==
    {par \in [1..n -> 0..(n - 1)] :
        \A i \in 1..n : par[i] < i /\ (i > 1 => par[i] \in AncOrSelf(par, i - 1))}

TestIdAttr(v) == IF v = None THEN <<>> ELSE << <<"data-test-id", v>> >>

\* Every tree of n <div> elements, each with a data-test-id drawn from ids
\* (None: no such attribute).
TreeDocsOfSize(n, ids) ==
    {[i \in 1..n |-> TagNode(DIV, TestIdAttr(t[i]), par[i])] :
        par \in ParentVecs(n), t \in [1..n -> ids]}

TreeDocs(max, ids) == UNION {TreeDocsOfSize(n, ids) : n \in 0..max}

TreeTestIds == {None, <<>>, E2E_A, E2E_B, UNIT_FOO}

FilterDocs == TreeDocs(MaxNodes, TreeTestIds)

\* One element whose data-test-id probes the prefix test.
PrefixProbes ==
    {<<"e", "2", "e">>, E2E_PREFIX, <<"E", "2", "E", "-", "a">>,
     <<"x", "e", "2", "e", "-", "a">>, <<" ", "e", "2", "e", "-", "a">>}

ProbeDocs == {<<TagNode(BUTTON, TestIdAttr(v), 0)>> : v \in PrefixProbes}

\* All orderings of a set of attributes.
Orderings(S) ==
    {s \in [1..Cardinality(S) -> S] : \A i, j \in 1..Cardinality(S) : s[i] = s[j] => i = j}

OptAttr(name, v) == IF v = None THEN {} ELSE {<<name, v>>}

\* One qualifying <button> with every combination of type, aria-label and
\* placeholder (absent, empty, set), the attributes written in every order,
\* without text, with blank text or with text.
FieldDocs ==
    UNION {
        {<<TagNode(BUTTON, attrs, 0)>> \o txt :
            attrs \in Orderings({<<"data-test-id", E2E_A>>} \cup OptAttr("type", ty)
                                \cup OptAttr("aria-label", ar) \cup OptAttr("placeholder", ph)),
            txt \in {<<>>, <<TextNode(<<" ">>, 1)>>, <<TextNode(<<" ", "G", "o", "\n">>, 1)>>}} :
        ty \in {None, <<>>, SUBMIT}, ar \in {None, <<>>, CLOSE}, ph \in {None, <<>>, HINT}}

\* One qualifying <button> holding up to MaxTexts text strings, each either a
\* child of the button or wrapped in a <span> of its own.
TextValues == {<<" ">>, <<"\n">>, <<"O", "k", "\t">>, <<" ", "a", " ", "b", " ">>}

RECURSIVE TextItems(_, _)
TextItems(items, at) ==
    IF items = <<>> THEN <<>>
    ELSE IF Head(items)[2]
         THEN <<TagNode(SPAN, <<>>, 1), TextNode(Head(items)[1], at)>>
                  \o TextItems(Tail(items), at + 2)
         ELSE <<TextNode(Head(items)[1], 1)>> \o TextItems(Tail(items), at + 1)

TextDocs ==
    UNION {
        {<<TagNode(BUTTON, TestIdAttr(E2E_A), 0)>> \o TextItems(items, 2) :
            items \in [1..n -> TextValues \X BOOLEAN]} :
        n \in 0..MaxTexts}

\* Up to MaxLabels elements carrying a for attribute (a <label>, or a <div>
\* that only looks like one), each holding one text string, and one qualifying
\* <input> whose id is absent, empty or "x"; the input stands before, between
\* or after them, or inside one of them.
LabelKinds ==
    {[tag |-> LABEL, for |-> None, text |-> "plain"],
     [tag |-> LABEL, for |-> <<>>, text |-> "plain"],
     [tag |-> LABEL, for |-> ID_X, text |-> "plain"],
     [tag |-> LABEL, for |-> ID_X, text |-> "blank"],
     [tag |-> LABEL, for |-> ID_X, text |-> "rich"],
     [tag |-> LABEL, for |-> ID_Y, text |-> "plain"],
     [tag |-> DIV, for |-> ID_X, text |-> "plain"]}

Digits == <<"1", "2", "3", "4", "5", "6", "7", "8", "9">>

LabelText(k, text) == IF text = "blank" THEN <<" ">> ELSE <<" ", "L", Digits[k], "\n">>

\* The content of the k-th label, which stands at index me: its text and, for
\* a rich label, a <span> with more text.
LabelContent(k, text, me) ==
    <<TextNode(LabelText(k, text), me)>>
    \o (IF text = "rich"
        THEN <<TagNode(SPAN, <<>>, me), TextNode(<<" ", "m", " ">>, me + 2)>>
        ELSE <<>>)

LabelledInput(id, parent) ==
    TagNode(INPUT, TestIdAttr(E2E_A) \o (IF id = None THEN <<>> ELSE << <<"id", id>> >>), parent)

RECURSIVE LabelItems(_, _, _, _, _)
LabelItems(labels, k, at, id, pos) ==
    LET n == Len(labels)
        before == IF pos = k - 1 THEN <<LabelledInput(id, 0)>> ELSE <<>>
        me == at + Len(before)
        content == LabelContent(k, labels[k].text, me)
        inside == IF pos = n + k THEN <<LabelledInput(id, me)>> ELSE <<>>
    IN  IF k > n THEN before
        ELSE before
             \o <<TagNode(labels[k].tag,
                          IF labels[k].for = None THEN <<>> ELSE << <<"for", labels[k].for>> >>,
                          0)>>
             \o content
             \o inside
             \o LabelItems(labels, k + 1, me + 1 + Len(content) + Len(inside), id, pos)

LabelDocs ==
    UNION {
        {LabelItems(labels, 1, 1, id, pos) :
            labels \in [1..n -> LabelKinds], id \in {None, <<>>, ID_X}, pos \in 0..(2 * n)} :
        n \in 0..MaxLabels}

\* A <button> with every attribute, written in the reverse of the record's
\* field order, with text and with a label after it, and the same without id.
FullDocs ==
    {<<TagNode(BUTTON,
               (IF id = None THEN <<>> ELSE << <<"id", id>> >>)
               \o << <<"placeholder", HINT>>, <<"aria-label", CLOSE>>,
                     <<"type", SUBMIT>>, <<"data-test-id", tid>> >>,
               0),
       TextNode(<<"G", "o">>, 1),
       TagNode(LABEL, << <<"for", ID_Y>>, <<"data-test-id", tid>> >>, 0),
       TextNode(<<"Y", "e", "s">>, 3)>> :
        id \in {None, ID_X, ID_Y}, tid \in {E2E_A, UNIT_FOO}}

\* The shape of a tree the parser builds: parents precede their children, a
\* subtree is contiguous in the text, only tags have children and <input> (a
\* void element) has none, a tag has a name, and two strings are never
\* adjacent (the parser joins them).
WellFormed(doc) ==
    \A i \in 1..Len(doc) :
        /\ doc[i].parent < i
        /\ doc[i].parent \in AncOrSelf([j \in 1..Len(doc) |-> doc[j].parent], i - 1)
        /\ doc[i].parent # 0 =>
              doc[doc[i].parent].kind = "tag" /\ doc[doc[i].parent].name # INPUT
        /\ doc[i].kind = "tag" => doc[i].name # <<>>
        /\ doc[i].kind = "text" => doc[i].string # <<>>
        /\ (i > 1 /\ doc[i].kind = "text" /\ doc[i - 1].kind = "text") =>
              doc[i].parent # doc[i - 1].parent

Docs ==
    {doc \in FilterDocs \cup ProbeDocs \cup FieldDocs \cup TextDocs \cup LabelDocs \cup FullDocs :
        WellFormed(doc)}

LibTestIds == {None, E2E_A, UNIT_FOO}

LibDocs == {doc \in TreeDocs(MaxLibNodes, LibTestIds) : WellFormed(doc)}

(***************************************************************************)
(* Dictionaries, lists and JSON.                                           *)
(***************************************************************************)
\* d[key] = value on a dict, kept as the sequence of its <<key, value>> items
\* in insertion order: a new key goes last, an old key keeps its place.
DictSet(d, key, value) ==
    IF \E i \in 1..Len(d) : d[i][1] = key
    THEN [i \in 1..Len(d) |-> IF d[i][1] = key THEN <<key, value>> ELSE d[i]]
    ELSE Append(d, <<key, value>>)

\* variant: list.insert(0, x)
list_prepend(l, x) == <<x>> \o l

\* list.append(x)
list_append(l, x) == Append(l, x)

\* The keys of the records in alphabetical order, as sort_keys=True would
\* write them.
SortedKeys ==
    <<"aria_label", "label", "placeholder", "tag", "test_id", "text", "type">>

JsonMember(name, value) == [name |-> name, value |-> value]

\* One dict as a JSON object: its members in the order of the dict's items.
JsonObject(d) == [i \in 1..Len(d) |-> JsonMember(d[i][1], d[i][2])]

RECURSIVE SortedMembers(_, _)
SortedMembers(d, keys) ==
    IF keys = <<>> THEN <<>>
    ELSE (IF \E i \in 1..Len(d) : d[i][1] = Head(keys)
          THEN <<JsonMember(Head(keys),
                            d[CHOOSE i \in 1..Len(d) : d[i][1] = Head(keys)][2])>>
          ELSE <<>>)
         \o SortedMembers(d, Tail(keys))

\* variant: json.dumps(test_elements, indent=2, sort_keys=True)
json_dumps_sort_keys(l) == [i \in 1..Len(l) |-> SortedMembers(l[i], SortedKeys)]

\* json.dumps(test_elements, indent=2): the text is kept as the array it
\* spells, one object per dict in list order, members in dict order.
json_dumps(l) == [i \in 1..Len(l) |-> JsonObject(l[i])]

(***************************************************************************)
(* extract_test_elements: the body of the loop.                            *)
(***************************************************************************)
\* variant: `if value is not None:`
truthy_not_none(v) == v # None

\* the test of `if value:` on an attribute value or a text
is_truthy(v) == Truthy(v)

\* variant: element.get_text()
get_text_unstripped(doc, el) ==
    LET RECURSIVE Join(_)
        Join(ns) ==
            IF ns = <<>> THEN <<>>
            ELSE IF doc[Head(ns)].kind = "text"
                 THEN doc[Head(ns)].string \o Join(Tail(ns))
                 ELSE Join(Tail(ns))
    IN  Join(Descendants(doc, el))

\* element.get_text(strip=True)
stripped_text(doc, el) == get_text(doc, el)

\* variant: the prefix is not tested
accepts_any_test_id(test_id) == Truthy(test_id)

\* test_id and test_id.startswith("e2e-")
is_e2e(test_id) == Truthy(test_id) /\ StartsWith(test_id, E2E_PREFIX)

\* variant: the last matching label instead of the first
find_last_label(doc, id) ==
    LET ls == {i \in 1..Len(doc) :
                  doc[i].kind = "tag" /\ doc[i].name = LABEL /\ Get(doc[i], "for") = id}
    IN  IF ls = {} THEN 0 ELSE CHOOSE i \in ls : \A j \in ls : j <= i

\* soup.find("label", attrs={"for": element["id"]})
find_label(doc, id) == find(doc, LABEL, "for", id)

\* The label text of the element: None unless the element has a truthy id, a
\* label is found for it and the label's text is truthy.
label_of(doc, el) ==
    IF is_truthy(Get(doc[el], "id"))
    THEN LET label == find_label(doc, Get(doc[el], "id"))
         IN  IF label # 0 /\ is_truthy(stripped_text(doc, label))
             THEN stripped_text(doc, label)
             ELSE None
    ELSE None

SetIf(d, key, value) == IF is_truthy(value) THEN DictSet(d, key, value) ELSE d

\* The dict built for one matching element.
element_info(doc, el) ==
    LET d0 == << <<"test_id", Get(doc[el], "data-test-id")>> >>
        d1 == SetIf(d0, "tag", doc[el].name)
        d2 == SetIf(d1, "type", Get(doc[el], "type"))
        d3 == SetIf(d2, "text", stripped_text(doc, el))
        d4 == SetIf(d3, "aria_label", Get(doc[el], "aria-label"))
        d5 == SetIf(d4, "placeholder", Get(doc[el], "placeholder"))
    IN  SetIf(d5, "label", label_of(doc, el))

(***************************************************************************)
(* The environment of a command-line run.                                  *)
(***************************************************************************)
PROGRAM == "extract_test_elements.py"

\* What the file system holds at each path the runs name.
FileKind(path) ==
    CASE path = "page.html" -> "file"
      [] path = "pages" -> "directory"
      [] OTHER -> "missing"

ArgvChoices ==
    {<<PROGRAM>>, <<PROGRAM, "page.html">>, <<PROGRAM, "nope.html">>,
     <<PROGRAM, "pages">>, <<PROGRAM, "nope.html", "page.html">>}

Usage == [kind |-> "usage", text |-> <<>>, path |-> ""]
ErrorMessage(path) == [kind |-> "error", text |-> <<>>, path |-> path]
Output(text) == [kind |-> "output", text |-> text, path |-> ""]

\* No invocation recorded yet.
NoCall == [set |-> FALSE, html |-> <<>>, result |-> <<>>, other |-> FALSE]

(***************************************************************************)
(* State.                                                                  *)
(***************************************************************************)
VARIABLES
    argv,           \* sys.argv
    pc,             \* where the run stands
    stdout,         \* the messages printed
    stderr,         \* the traceback of an unhandled exception
    exit_status,    \* the process's exit status, None while it runs
    steps,          \* history: the steps of the shell taken so far
    html_content,   \* the text read, as the tree the parser makes of it
    soup,           \* BeautifulSoup(html_content, "html.parser")
    matched,        \* the ResultSet of soup.find_all(...)
    idx,            \* position of the for loop in matched
    test_elements,  \* the list under construction
    emitted,        \* history: the elements a record was appended for
    result,         \* the value extract_test_elements returned
    seen            \* history: an earlier invocation and what it returned

vars ==
    <<argv, pc, stdout, stderr, exit_status, steps, html_content, soup, matched,
      idx, test_elements, emitted, result, seen>>

shell == <<argv, stdout, stderr, exit_status, steps>>
locals == <<soup, matched, idx, test_elements, emitted, result>>

Init ==
    /\ argv \in ArgvChoices
    /\ pc = "main"
    /\ stdout = <<>>
    /\ stderr = <<>>
    /\ exit_status = None
    /\ steps = <<>>
    /\ html_content = <<>>
    /\ soup = <<>>
    /\ matched = <<>>
    /\ idx = 1
    /\ test_elements = <<>>
    /\ emitted = <<>>
    /\ result = <<>>
    /\ seen = NoCall

(***************************************************************************)
(* The command-line shell.                                                 *)
(***************************************************************************)
\* sys.exit(status), or the interpreter ending on an unhandled exception
Exit(status) == exit_status' = status /\ pc' = "exited"

Raise == stderr' = <<"Traceback">> /\ Exit(1)

\* if len(sys.argv) < 2: print usage, exit 1
main_args ==
    /\ pc = "main"
    /\ steps' = Append(steps, "args")
    /\ IF Len(argv) < 2
       THEN stdout' = Append(stdout, Usage) /\ Exit(1)
       ELSE stdout' = stdout /\ pc' = "exists" /\ exit_status' = exit_status
    /\ UNCHANGED <<argv, stderr, html_content, seen>>
    /\ UNCHANGED locals

\* variant: the error is printed and the run goes on, sys.exit(1) left out
main_exists_no_exit ==
    /\ pc = "exists"
    /\ steps' = Append(steps, "exists")
    /\ stdout' = IF FileKind(argv[2]) = "missing"
                 THEN Append(stdout, ErrorMessage(argv[2]))
                 ELSE stdout
    /\ pc' = "open"
    /\ UNCHANGED <<argv, stderr, exit_status, html_content, seen>>
    /\ UNCHANGED locals

\* file_path = sys.argv[1]; if not os.path.exists(file_path): print error, exit 1
main_exists ==
    /\ pc = "exists"
    /\ steps' = Append(steps, "exists")
    /\ IF FileKind(argv[2]) = "missing"
       THEN stdout' = Append(stdout, ErrorMessage(argv[2])) /\ Exit(1)
       ELSE stdout' = stdout /\ pc' = "open" /\ exit_status' = exit_status
    /\ UNCHANGED <<argv, stderr, html_content, seen>>
    /\ UNCHANGED locals

\* with open(file_path, "r", encoding="utf-8") as file: html_content = file.read()
\* (open raises on a directory or a missing file: traceback, status 1)
main_read ==
    /\ pc = "open"
    /\ steps' = Append(steps, "read")
    /\ IF FileKind(argv[2]) = "file"
       THEN /\ \E doc \in Docs : html_content' = doc
            /\ pc' = "print"
            /\ UNCHANGED <<stderr, exit_status>>
       ELSE Raise /\ html_content' = html_content
    /\ UNCHANGED <<argv, stdout, seen>>
    /\ UNCHANGED locals

\* print(extract_test_elements(html_content)): the call
main_call ==
    /\ pc = "print"
    /\ steps' = Append(steps, "extract")
    /\ pc' = "call"
    /\ UNCHANGED <<argv, stdout, stderr, exit_status, html_content, seen>>
    /\ UNCHANGED locals

\* variant: the result is printed twice
main_print_twice ==
    /\ pc = "returned"
    /\ steps' = Append(steps, "print")
    /\ stdout' = stdout \o <<Output(result), Output(result)>>
    /\ Exit(0)
    /\ UNCHANGED <<argv, stderr, html_content, seen>>
    /\ UNCHANGED locals

\* print(extract_test_elements(html_content)): the print; the script ends
main_print ==
    /\ pc = "returned"
    /\ steps' = Append(steps, "print")
    /\ stdout' = Append(stdout, Output(result))
    /\ Exit(0)
    /\ UNCHANGED <<argv, stderr, html_content, seen>>
    /\ UNCHANGED locals

(***************************************************************************)
(* extract_test_elements.                                                  *)
(***************************************************************************)
\* variant: the list outlives the call (a mutable default argument)
extract_begin_keeping_list ==
    /\ pc = "call"
    /\ soup' = html_content
    /\ matched' = find_all(html_content, "data-test-id")
    /\ idx' = 1
    /\ emitted' = <<>>
    /\ pc' = "loop"
    /\ UNCHANGED <<test_elements, result, html_content, seen>>
    /\ UNCHANGED shell

\* soup = BeautifulSoup(...); test_elements = []; the find_all of the for
extract_begin ==
    /\ pc = "call"
    /\ soup' = html_content
    /\ test_elements' = <<>>
    /\ matched' = find_all(html_content, "data-test-id")
    /\ idx' = 1
    /\ emitted' = <<>>
    /\ pc' = "loop"
    /\ UNCHANGED <<result, html_content, seen>>
    /\ UNCHANGED shell

\* one turn of the for loop
extract_loop ==
    /\ pc = "loop"
    /\ idx <= Len(matched)
    /\ LET element == matched[idx]
           test_id == Get(soup[element], "data-test-id")
       IN  IF is_e2e(test_id)
           THEN /\ test_elements' = list_append(test_elements, element_info(soup, element))
                /\ emitted' = Append(emitted, element)
           ELSE UNCHANGED <<test_elements, emitted>>
    /\ idx' = idx + 1
    /\ UNCHANGED <<pc, soup, matched, result, html_content, seen>>
    /\ UNCHANGED shell

\* return json.dumps(test_elements, indent=2): the frame's soup and loop state
\* are gone; the list stays as built, nothing reads it before the next call
\* binds the name again
extract_return ==
    /\ pc = "loop"
    /\ idx > Len(matched)
    /\ result' = json_dumps(test_elements)
    /\ pc' = "returned"
    /\ soup' = <<>>
    /\ matched' = <<>>
    /\ idx' = 1
    /\ UNCHANGED <<test_elements, emitted, html_content, seen>>
    /\ UNCHANGED shell

Next ==
    \/ main_args
    \/ main_exists
    \/ main_read
    \/ main_call
    \/ extract_begin
    \/ extract_loop
    \/ extract_return
    \/ main_print

Spec == Init /\ [][Next]_vars

(***************************************************************************)
(* The module imported and the function called again and again.            *)
(***************************************************************************)
InitLib ==
    /\ argv = <<PROGRAM>>
    /\ pc = "idle"
    /\ stdout = <<>>
    /\ stderr = <<>>
    /\ exit_status = None
    /\ steps = <<>>
    /\ html_content = <<>>
    /\ soup = <<>>
    /\ matched = <<>>
    /\ idx = 1
    /\ test_elements = <<>>
    /\ emitted = <<>>
    /\ result = <<>>
    /\ seen = NoCall

\* a caller invokes extract_test_elements(doc)
lib_call ==
    /\ pc = "idle"
    /\ \E doc \in LibDocs : html_content' = doc
    /\ pc' = "call"
    /\ UNCHANGED seen
    /\ UNCHANGED shell
    /\ UNCHANGED locals

\* the caller takes the result and drops its references; one invocation, at
\* most, is remembered, and whether another document was extracted after it
lib_done ==
    /\ pc = "returned"
    /\ pc' = "idle"
    /\ \/ seen' = [seen EXCEPT !.other = @ \/ (seen.set /\ seen.html # html_content)]
       \/ /\ ~seen.set
          /\ seen' = [set |-> TRUE, html |-> html_content, result |-> result,
                      other |-> FALSE]
    /\ html_content' = <<>>
    /\ result' = <<>>
    /\ emitted' = <<>>
    /\ UNCHANGED <<soup, matched, idx, test_elements>>
    /\ UNCHANGED shell

NextLib ==
    \/ lib_call
    \/ extract_begin
    \/ extract_loop
    \/ extract_return
    \/ lib_done

SpecLib == InitLib /\ [][NextLib]_vars

(***************************************************************************)
(* Vocabulary of the properties, stated on the document and on the JSON    *)
(* array without the traversals above.                                     *)
(***************************************************************************)
\* the values the node's attribute has: none or one
AttrValues(node, name) ==
    {node.attrs[i][2] : i \in {j \in 1..Len(node.attrs) : node.attrs[j][1] = name}}

Parents(doc) == [j \in 1..Len(doc) |-> doc[j].parent]

\* i lies properly below el
Below(doc, el, i) == i # el /\ el \in AncOrSelf(Parents(doc), i)

\* the element carries data-test-id with a value beginning with e2e-
Qualifies(doc, i) ==
    /\ doc[i].kind = "tag"
    /\ \E v \in AttrValues(doc[i], "data-test-id") :
          Len(v) >= 4 /\ v[1] = "e" /\ v[2] = "2" /\ v[3] = "e" /\ v[4] = "-"

\* the qualifying elements by their place in the text
RECURSIVE QualifyingFrom(_, _)
QualifyingFrom(doc, i) ==
    IF i > Len(doc) THEN <<>>
    ELSE (IF Qualifies(doc, i) THEN <<i>> ELSE <<>>) \o QualifyingFrom(doc, i + 1)

QualifyingInOrder(doc) == QualifyingFrom(doc, 1)

HasField(obj, name) == \E i \in 1..Len(obj) : obj[i].name = name

Field(obj, name) ==
    IF HasField(obj, name)
    THEN obj[CHOOSE i \in 1..Len(obj) : obj[i].name = name].value
    ELSE None

Keys(obj) == [i \in 1..Len(obj) |-> obj[i].name]

\* the text strings below el, each stripped, in the order of the text
RECURSIVE StrippedFrom(_, _, _)
StrippedFrom(doc, el, j) ==
    IF j > Len(doc) THEN <<>>
    ELSE (IF doc[j].kind = "text" /\ Below(doc, el, j) THEN Strip(doc[j].string) ELSE <<>>)
         \o StrippedFrom(doc, el, j + 1)

StrippedStrings(doc, el) == StrippedFrom(doc, el, 1)

\* the <label> elements whose for attribute is x
LabelsFor(doc, x) ==
    {i \in 1..Len(doc) :
        doc[i].kind = "tag" /\ doc[i].name = LABEL /\ x \in AttrValues(doc[i], "for")}

\* the label field an element of id x is to get: the stripped text of the
\* first label for x, None if there is no such label or its text is empty
ExpectedLabel(doc, x) ==
    LET ls == LabelsFor(doc, x)
        first == CHOOSE i \in ls : \A j \in ls : i <= j
    IN  IF ls # {} /\ StrippedStrings(doc, first) # <<>>
        THEN StrippedStrings(doc, first)
        ELSE None

\* extract_test_elements has returned: html_content is the document, result
\* the array, emitted[k] the element of the k-th record
Returned == pc = "returned"

IsPrefix(s, t) == Len(s) <= Len(t) /\ s = SubSeq(t, 1, Len(s))

(***************************************************************************)
(* C1: a record is emitted for an element if and only if the element       *)
(* carries data-test-id with a value beginning with e2e-; elements without *)
(* the attribute, with an empty value or another prefix give no record,    *)
(* and a document without a qualifying element gives the empty list.       *)
(***************************************************************************)
FilterCorrect ==
    /\ pc = "loop" =>
          /\ Len(test_elements) = Len(emitted)
          /\ \A k \in 1..Len(emitted) : Qualifies(soup, emitted[k])
    /\ Returned =>
          /\ Len(result) = Len(emitted)
          /\ \A k, l \in 1..Len(emitted) : emitted[k] = emitted[l] => k = l
          /\ \A i \in 1..Len(html_content) :
                (\E k \in 1..Len(emitted) : emitted[k] = i) <=> Qualifies(html_content, i)
          /\ (\A i \in 1..Len(html_content) : ~Qualifies(html_content, i)) => result = <<>>

FilterWitness ==
    /\ Returned
    /\ Len(result) = 1
    /\ \E i, j, k \in 1..Len(html_content) :
          /\ AttrValues(html_content[i], "data-test-id") = {<<>>}
          /\ AttrValues(html_content[j], "data-test-id") = {UNIT_FOO}
          /\ AttrValues(html_content[k], "data-test-id") = {E2E_A}

(***************************************************************************)
(* C2 as written: for a qualifying element that has an id attribute of     *)
(* value x, the label field is the stripped text of the first <label> of   *)
(* the document whose for attribute equals x, and is omitted if there is   *)
(* none or its stripped text is empty.                                     *)
(***************************************************************************)
LabelForEveryId ==
    Returned =>
        \A k \in 1..Len(emitted) :
            \A x \in AttrValues(html_content[emitted[k]], "id") :
                Field(result[k], "label") = ExpectedLabel(html_content, x)

(***************************************************************************)
(* C2 amended: the same for an id attribute of non-empty value x; the      *)
(* label field is omitted when the id attribute is absent or empty.        *)
(***************************************************************************)
LabelForNonEmptyId ==
    Returned =>
        \A k \in 1..Len(emitted) :
            LET ids == AttrValues(html_content[emitted[k]], "id")
            IN  /\ \A x \in ids :
                      x # <<>> => Field(result[k], "label") = ExpectedLabel(html_content, x)
                /\ ids \subseteq {<<>>} => ~HasField(result[k], "label")

LabelWitness ==
    /\ Returned
    /\ Len(emitted) = 1
    /\ AttrValues(html_content[emitted[1]], "id") = {ID_X}
    /\ \E l1, l2 \in LabelsFor(html_content, ID_X) :
          /\ emitted[1] < l1 /\ l1 < l2
          /\ StrippedStrings(html_content, l1) # <<>>
          /\ StrippedStrings(html_content, l2) # <<>>
          /\ Field(result[1], "label") = StrippedStrings(html_content, l1)
          /\ Field(result[1], "label") # StrippedStrings(html_content, l2)

(***************************************************************************)
(* C3: the records are the qualifying elements in document order, one per  *)
(* element, an ancestor before its descendants, the i-th record carrying   *)
(* the i-th qualifying element's data-test-id; equal test ids stay apart.  *)
(***************************************************************************)
OrderPreserved ==
    Returned =>
        LET q == QualifyingInOrder(html_content)
        IN  /\ emitted = q
            /\ Len(result) = Len(q)
            /\ \A k \in 1..Len(q) :
                  Field(result[k], "test_id") \in AttrValues(html_content[q[k]], "data-test-id")
            /\ \A k, l \in 1..Len(q) : Below(html_content, q[k], q[l]) => k < l

OrderWitness ==
    /\ Returned
    /\ Len(result) = 3
    /\ html_content[2].parent = 1
    /\ Field(result[1], "test_id") = Field(result[3], "test_id")
    /\ Field(result[1], "test_id") # Field(result[2], "test_id")

(***************************************************************************)
(* C4: type, aria_label and placeholder are in a record if and only if the *)
(* element has the attribute with a non-empty value, and then equal it; no *)
(* optional field is emitted empty or null.                                *)
(***************************************************************************)
OptionalAttrFields ==
    {<<"type", "type">>, <<"aria_label", "aria-label">>, <<"placeholder", "placeholder">>}

FieldsFollowAttributes ==
    Returned =>
        \A k \in 1..Len(emitted) :
            /\ \A p \in OptionalAttrFields :
                  LET vs == AttrValues(html_content[emitted[k]], p[2])
                  IN  IF \E v \in vs : v # <<>>
                      THEN Field(result[k], p[1]) \in vs
                      ELSE ~HasField(result[k], p[1])
            /\ \A m \in 1..Len(result[k]) :
                  result[k][m].name \notin {"test_id", "tag"} =>
                      result[k][m].value # <<>> /\ result[k][m].value # None

FieldsWitness ==
    /\ Returned
    /\ Len(emitted) = 1
    /\ AttrValues(html_content[emitted[1]], "type") = {SUBMIT}
    /\ AttrValues(html_content[emitted[1]], "aria-label") = {<<>>}
    /\ AttrValues(html_content[emitted[1]], "placeholder") = {}
    /\ Field(result[1], "type") = SUBMIT
    /\ ~HasField(result[1], "aria_label")

(***************************************************************************)
(* C5: every record has test_id and tag, and its keys, in serialized       *)
(* order, are a subsequence of test_id, tag, type, text, aria_label,       *)
(* placeholder, label that starts with test_id, tag, whatever the order of *)
(* the attributes on the element.                                          *)
(***************************************************************************)
FieldOrder ==
    <<"test_id", "tag", "type", "text", "aria_label", "placeholder", "label">>

Rank(key) == CHOOSE r \in 1..Len(FieldOrder) : FieldOrder[r] = key

KeysInFieldOrder ==
    Returned =>
        \A k \in 1..Len(result) :
            LET keys == Keys(result[k])
            IN  /\ Len(keys) >= 2
                /\ keys[1] = "test_id"
                /\ keys[2] = "tag"
                /\ \A a \in 1..Len(keys) : \E r \in 1..Len(FieldOrder) : FieldOrder[r] = keys[a]
                /\ \A a, b \in 1..Len(keys) : a < b => Rank(keys[a]) < Rank(keys[b])

KeysWitness ==
    /\ Returned
    /\ Len(result) >= 1
    /\ Keys(result[1]) = FieldOrder
    /\ html_content[emitted[1]].attrs[1][1] = "id"
    /\ html_content[emitted[1]].attrs[5][1] = "data-test-id"

(***************************************************************************)
(* C6: the text field is in a record if and only if some text below the    *)
(* element has a non-whitespace character; a text value has no leading or  *)
(* trailing whitespace.                                                    *)
(***************************************************************************)
HasVisibleText(doc, el) ==
    \E j \in 1..Len(doc) :
        /\ doc[j].kind = "text"
        /\ Below(doc, el, j)
        /\ \E c \in 1..Len(doc[j].string) : doc[j].string[c] \notin Whitespace

TextWhenVisible ==
    Returned =>
        \A k \in 1..Len(emitted) :
            LET text == Field(result[k], "text")
            IN  /\ HasField(result[k], "text") <=> HasVisibleText(html_content, emitted[k])
                /\ HasField(result[k], "text") =>
                      /\ text # <<>>
                      /\ text[1] \notin Whitespace
                      /\ text[Len(text)] \notin Whitespace

TextWitness ==
    /\ Returned
    /\ Len(emitted) = 1
    /\ Field(result[1], "text") = <<"a", " ", "b">>
    /\ \E j \in 1..Len(html_content) :
          /\ html_content[j].kind = "text"
          /\ html_content[j].string = <<" ">>
          /\ Below(html_content, emitted[1], j)
    /\ \E j \in 1..Len(html_content) :
          /\ html_content[j].kind = "text"
          /\ html_content[j].parent # emitted[1]
          /\ html_content[j].string = <<" ", "a", " ", "b", " ">>

(***************************************************************************)
(* C7: a run without argument prints the usage message and exits with      *)
(* status 1; a run whose path does not exist prints an error naming the    *)
(* path and exits with status 1; in both the file is never opened, the     *)
(* Extractor never invoked and no record list printed.                     *)
(***************************************************************************)
Untouched ==
    /\ \A i \in 1..Len(steps) : steps[i] \in {"args", "exists"}
    /\ \A i \in 1..Len(stdout) : stdout[i].kind # "output"
    /\ pc \in {"main", "exists", "exited"}
    /\ html_content = <<>>
    /\ stderr = <<>>

ErrorRuns ==
    /\ Len(argv) < 2 =>
          /\ Untouched
          /\ pc = "exited" => stdout = <<Usage>> /\ exit_status = 1 /\ steps = <<"args">>
    /\ (Len(argv) >= 2 /\ FileKind(argv[2]) = "missing") =>
          /\ Untouched
          /\ pc = "exited" =>
                /\ stdout = <<ErrorMessage(argv[2])>>
                /\ exit_status = 1
                /\ steps = <<"args", "exists">>

ErrorRunsWitness ==
    /\ pc = "exited"
    /\ argv = <<PROGRAM, "nope.html", "page.html">>
    /\ stdout = <<ErrorMessage("nope.html")>>
    /\ exit_status = 1

(***************************************************************************)
(* C8: a run on an existing readable file takes the steps argument check,  *)
(* existence check, file read, Extractor call, print in that order and     *)
(* ends with status 0 having written the serialized list once; every       *)
(* handled outcome writes exactly one message to standard output.          *)
(***************************************************************************)
ShellSteps == <<"args", "exists", "read", "extract", "print">>

SuccessRuns ==
    /\ IsPrefix(steps, ShellSteps)
    /\ pc # "exited" => stdout = <<>> /\ exit_status = None
    /\ (pc = "exited" /\ stderr = <<>>) => Len(stdout) = 1
    /\ (pc = "exited" /\ Len(argv) >= 2 /\ FileKind(argv[2]) = "file") =>
          /\ exit_status = 0
          /\ steps = ShellSteps
          /\ stdout = <<Output(result)>>
          /\ stderr = <<>>

SuccessWitness ==
    /\ pc = "exited"
    /\ exit_status = 0
    /\ steps = ShellSteps
    /\ Len(stdout) = 1
    /\ Len(stdout[1].text) = 2

(***************************************************************************)
(* C9: an invocation's output depends on its input alone: an invocation    *)
(* on the text of a remembered earlier invocation returns the same output, *)
(* whatever was extracted before or in between.                            *)
(***************************************************************************)
SameInputSameOutput ==
    (Returned /\ seen.set /\ seen.html = html_content) => result = seen.result

RepeatWitness ==
    /\ Returned
    /\ seen.set
    /\ seen.other
    /\ seen.html = html_content
    /\ Len(result) >= 1

(***************************************************************************)
(* C10: an index built once per document, from each for value to the first *)
(* <label> in document order carrying it, consulted in place of the        *)
(* rescan, gives every record the same label field as the rescan.          *)
(***************************************************************************)
RECURSIVE LabelIndexFrom(_, _, _)
LabelIndexFrom(doc, i, index) ==
    IF i > Len(doc) THEN index
    ELSE IF /\ doc[i].kind = "tag"
            /\ doc[i].name = LABEL
            /\ Get(doc[i], "for") # None
            /\ Get(doc[i], "for") \notin DOMAIN index
         THEN LabelIndexFrom(doc, i + 1, index @@ (Get(doc[i], "for") :> i))
         ELSE LabelIndexFrom(doc, i + 1, index)

LabelIndex(doc) == LabelIndexFrom(doc, 1, <<>>)

IndexedLabel(doc, index, el) ==
    LET id == Get(doc[el], "id")
    IN  IF Truthy(id) /\ id \in DOMAIN index /\ Truthy(get_text(doc, index[id]))
        THEN get_text(doc, index[id])
        ELSE None

====
